---- MODULE Spec2Model ----
(***************************************************************************)
(* A model of the PEX reactor of p2p/pex_reactor.go: the per-peer message  *)
(* counter (a cmn.CMap read and written in separate locked operations),    *)
(* Receive and its dispatch, the AddPeer / RemovePeer hooks, the message   *)
(* codec, the service lifecycle with its two background routines, and the  *)
(* ensurePeers algorithm with its detached dial tasks.                     *)
(*                                                                         *)
(* The address book, the switch and the peers are collaborators outside    *)
(* the file: every answer they give is a nondeterministic input, and every *)
(* call made on them is recorded in the record of the operation making it. *)
(***************************************************************************)
EXTENDS Integers, Sequences, FiniteSets, TLC

\* ------------------------------------------------------------------ bounds
MaxPeers == 2
MaxCalls == 3
MaxThreshold == 2
MaxIDs == 2
MaxHosts == 2
MaxAddrsLen == 3
MaxSelLen == 1
MaxOut == 12
MaxIn == 1
MaxDialing == 1
MaxRuns == 1
MaxFlood == 65537
MaxDeficit == 2

\* ------------------------------------------------------- program constants
minNumOutboundPeers == 10
maxPexMessageSize == 1048576
defaultMaxMsgCountByPeer == 1000
msgTypeRequest == 1
msgTypeAddrs == 2
Uint16Mod == 65536

\* ------------------------------------------------------------- data model
\* Peer IDs of the connected peers; a peer's own NetAddress carries its ID.
PeerIDs == 1..MaxPeers

\* A NetAddress is an ID and a network location.
NetAddress(i, h) == [id |-> i, host |-> h]

\* The nil *NetAddress.
NilAddr == [id |-> 0, host |-> 0]

\* The addresses in play: one per ID, and further locations of ID 1 (two
\* addresses are the same candidate when their IDs are equal).
AddrPool == {NetAddress(i, 1) : i \in 1..MaxIDs} \cup {NetAddress(1, h) : h \in 1..MaxHosts}

\* The addresses a message carries.
MsgAddrs == {NetAddress(i, 1) : i \in 1..MaxIDs}

\* src.NodeInfo().NetAddress()
PeerAddr(p) == NetAddress(p, 1)

pexRequestMessage == [type |-> "request", addrs |-> <<>>]

pexAddrsMessage(as) == [type |-> "addrs", addrs |-> as]

\* The nil PexMessage (no message decoded).
NoMsg == [type |-> "none", addrs |-> <<>>]

AddrSeqs(n) == UNION {[1..k -> MsgAddrs \cup {NilAddr}] : k \in 0..n}

\* What GetSelection may return: the book's choice, never a nil entry.
Selections == UNION {[1..k -> MsgAddrs] : k \in 0..MaxSelLen}

\* --------------------------------------------------------------- the codec
\* Raw bytes: the leading bytes that are read, and a count of further
\* trailing bytes (so that an input above the size bound has a value).
Bytes(d, n) == [data |-> d, pad |-> n]

BzLen(bz) == Len(bz.data) + bz.pad

\* A *NetAddress on the wire: 0x00 for nil, else 0x01 and the fields.
EncodeAddr(a) == IF a = NilAddr THEN <<0>> ELSE <<1, a.id, a.host>>

RECURSIVE EncodeAddrs(_)
EncodeAddrs(as) ==
    IF as = <<>> THEN <<>>
    ELSE EncodeAddr(Head(as)) \o EncodeAddrs(Tail(as))

\* A slice length on the wire: the size of the length, then the length.
EncodeLen(n) == IF n = 0 THEN <<0>> ELSE <<1, n>>

EncodeMessage(msg) ==
    IF msg.type = "request"
    THEN Bytes(<<msgTypeRequest>>, 0)
    ELSE Bytes(<<msgTypeAddrs>> \o EncodeLen(Len(msg.addrs)) \o EncodeAddrs(msg.addrs), 0)

\* Reads n addresses from d starting at position pos.
RECURSIVE ReadAddrs(_, _, _)
ReadAddrs(d, pos, n) ==
    IF n = 0 THEN [err |-> FALSE, addrs |-> <<>>]
    ELSE IF pos > Len(d) THEN [err |-> TRUE, addrs |-> <<>>]
    ELSE IF d[pos] = 0
         THEN LET rest == ReadAddrs(d, pos + 1, n - 1)
              IN  [err |-> rest.err, addrs |-> <<NilAddr>> \o rest.addrs]
    ELSE IF d[pos] = 1 /\ pos + 2 <= Len(d)
         THEN LET rest == ReadAddrs(d, pos + 3, n - 1)
              IN  [err |-> rest.err,
                   addrs |-> <<NetAddress(d[pos + 1], d[pos + 2])>> \o rest.addrs]
    ELSE [err |-> TRUE, addrs |-> <<>>]

\* wire.ReadBinary for the registered PexMessage interface, with the size
\* limit maxPexMessageSize.
ReadBinary(bz) ==
    LET d == bz.data
        failed == [err |-> TRUE, msg |-> NoMsg]
    IN  IF BzLen(bz) > maxPexMessageSize THEN failed
        ELSE IF Len(d) = 0 THEN failed
        ELSE IF d[1] = msgTypeRequest THEN [err |-> FALSE, msg |-> pexRequestMessage]
        ELSE IF d[1] = msgTypeAddrs
             THEN IF Len(d) < 2 THEN failed
                  ELSE IF d[2] = 0 THEN [err |-> FALSE, msg |-> pexAddrsMessage(<<>>)]
                  ELSE IF d[2] = 1 /\ Len(d) >= 3
                       THEN LET r == ReadAddrs(d, 4, d[3])
                            IN  IF r.err THEN failed
                                ELSE [err |-> FALSE, msg |-> pexAddrsMessage(r.addrs)]
                  ELSE failed
        ELSE failed

\* DecodeMessage: reads bz[0] first, which panics (index out of range) on an
\* empty slice, then hands the bytes to wire.ReadBinary.
DecodeMessage(bz) ==
    IF BzLen(bz) = 0
    THEN [panic |-> TRUE, err |-> FALSE, msg |-> NoMsg]
    ELSE LET r == ReadBinary(bz)
         IN  [panic |-> FALSE, err |-> r.err, msg |-> r.msg]

\* The inputs Receive is given: every encoded message, and the bad inputs
\* (empty, unknown tags, truncated payloads, oversized).
GoodInputs == {EncodeMessage(pexRequestMessage)}
              \cup {EncodeMessage(pexAddrsMessage(as)) : as \in AddrSeqs(MaxAddrsLen)}

BadInputs ==
    { Bytes(<<>>, 0),
      Bytes(<<0>>, 0),
      Bytes(<<3>>, 0),
      Bytes(<<msgTypeAddrs>>, 0),
      Bytes(<<msgTypeAddrs, 1, 1, 1, 1>>, 0),
      Bytes(<<msgTypeRequest>>, maxPexMessageSize),
      Bytes(<<msgTypeAddrs, 1, 1, 0>>, maxPexMessageSize - 3) }

Inputs == GoodInputs \cup BadInputs

\* The few inputs used where Receive calls run concurrently.
\* GetSelection is called for a decoded request only.
SelectionsFor(bz) ==
    IF DecodeMessage(bz).msg.type = "request" THEN Selections ELSE {<<>>}

SomeInputs ==
    { EncodeMessage(pexRequestMessage),
      EncodeMessage(pexAddrsMessage(<<NetAddress(1, 1), NilAddr>>)) }

\* ------------------------------------------------------------------- state
VARIABLES
    msgCountByPeer,     \* r.msgCountByPeer: the CMap, a map from peer ID to count
    maxMsgCountByPeer,  \* r.maxMsgCountByPeer
    receiving,          \* the Receive calls in flight, each with its locals
    nCalls,             \* number of Receive calls begun so far
    sent,               \* per peer: Receive calls begun since the last Clear
    incremented,        \* per peer: counter Set steps done since the last Clear
    clean,              \* per peer: no call begun before the last Clear has Set since
    droppedInWindow,    \* per peer: a Receive call was dropped since the last Clear
    last,               \* the handler step taken last, with the calls it made
    svc,                \* BaseService state of the reactor
    quit,               \* r.Quit is closed
    bookRunning,        \* the address book is started
    flushPc,            \* position of the flushMsgCountByPeer goroutine
    routinePc,          \* position of the ensurePeersRoutine goroutine
    ep,                 \* the ensurePeers execution: its locals and the calls it made
    dialing             \* the detached dial goroutines still running

limiterVars == <<msgCountByPeer, maxMsgCountByPeer, receiving, nCalls, sent,
                 incremented, clean, droppedInWindow>>

serviceVars == <<svc, quit, bookRunning, flushPc, routinePc>>

ensureVars == <<ep, dialing>>

vars == <<msgCountByPeer, maxMsgCountByPeer, receiving, nCalls, sent, incremented,
          clean, droppedInWindow, last, svc, quit, bookRunning, flushPc, routinePc, ep, dialing>>

\* The record of a handler step (op names the handler when the step is its
\* return, "Receive:begin" and "Receive:increment" its earlier steps). adds: the AddAddress calls (address,
\* source) in order; sends: the Send calls (peer, message) in order; marks:
\* the MarkAttempt calls in order. For a Receive call, ord is its position
\* among the calls its peer began since the last Clear, peerSent the number
\* of those calls when it returns, inWindow whether no Clear has interfered
\* with it, and afterDrop whether it began after a call of its peer was
\* dropped, with no Clear since.
Returned(op, p) ==
    [op |-> op, peer |-> p, outcome |-> "done", bz |-> Bytes(<<>>, 0), msg |-> NoMsg,
     sel |-> <<>>, adds |-> <<>>, sends |-> <<>>, ord |-> 0, peerSent |-> 0,
     inWindow |-> FALSE, afterDrop |-> FALSE,
     outbound |-> FALSE, needMore |-> FALSE, addr |-> NilAddr, marks |-> <<>>]

\* ----------------------------------------------------------- the CMap
\* CMap.Get: the value, or nil (no entry).
Has(m, k) == k \in DOMAIN m

\* CMap.Set
CMapSet(m, k, v) == [x \in (DOMAIN m) \cup {k} |-> IF x = k THEN v ELSE m[x]]

\* CMap.Clear
CMapClear(m) == [x \in {} |-> 0]

\* ReachedMaxMsgCountForPeer: the type assertion panics on a nil value.
ReachedMaxMsgCountForPeer(m, max, peerID) ==
    IF ~Has(m, peerID) THEN "panic"
    ELSE IF m[peerID] >= max THEN "reached"
    ELSE "below"

\* IncrementMsgCountForPeer, first half: var count uint16; Get; count = value
\* unless nil.
IncrementGet(m, peerID) == IF Has(m, peerID) THEN m[peerID] ELSE 0

\* IncrementMsgCountForPeer, second half: count++ (uint16) and Set.
IncrementSet(m, peerID, count) == CMapSet(m, peerID, (count + 1) % Uint16Mod)

\* ------------------------------------------------------------- Receive
\* Faulty variant: the loop without its nil check.
RECURSIVE AddAddressesNoNilCheck(_, _)
AddAddressesNoNilCheck(addrs, srcAddr) ==
    IF addrs = <<>> THEN <<>>
    ELSE <<[addr |-> Head(addrs), src |-> srcAddr]>>
         \o AddAddressesNoNilCheck(Tail(addrs), srcAddr)

\* The AddAddress calls of the pexAddrsMessage case: the non-nil entries in
\* order, each with srcAddr as source.
RECURSIVE AddAddresses(_, _)
AddAddresses(addrs, srcAddr) ==
    IF addrs = <<>> THEN <<>>
    ELSE IF Head(addrs) # NilAddr
         THEN <<[addr |-> Head(addrs), src |-> srcAddr]>> \o AddAddresses(Tail(addrs), srcAddr)
    ELSE AddAddresses(Tail(addrs), srcAddr)

\* RequestPEX: p.Send(PexChannel, pexRequestMessage)
RequestPEX(p) == <<[to |-> p, msg |-> pexRequestMessage]>>

\* Faulty variant: nothing is sent for an empty selection.
SendAddrsSkipEmpty(p, netAddrs) ==
    IF netAddrs = <<>> THEN <<>> ELSE <<[to |-> p, msg |-> pexAddrsMessage(netAddrs)]>>

\* SendAddrs: p.Send(PexChannel, pexAddrsMessage{Addrs: netAddrs})
SendAddrs(p, netAddrs) == <<[to |-> p, msg |-> pexAddrsMessage(netAddrs)]>>

\* Receive after the rate limiter let the message through: decode and dispatch.
\* sel is what r.book.GetSelection() returns if it is called.
Dispatch(base, src, bz, sel) ==
    LET dec == DecodeMessage(bz)
    IN  IF dec.panic THEN [base EXCEPT !.outcome = "panic"]
        ELSE IF dec.err THEN [base EXCEPT !.outcome = "decodeError"]
        ELSE IF dec.msg.type = "request"
             THEN [base EXCEPT !.outcome = "processed", !.msg = dec.msg, !.sel = sel,
                               !.sends = SendAddrs(src, sel)]
        ELSE IF dec.msg.type = "addrs"
             THEN [base EXCEPT !.outcome = "processed", !.msg = dec.msg,
                               !.adds = AddAddresses(dec.msg.addrs, PeerAddr(src))]
        ELSE [base EXCEPT !.outcome = "unknown"]

\* Receive up to and including the Get of IncrementMsgCountForPeer (the
\* first access to shared state), while fewer than cap calls have begun.
ReceiveBeginUpTo(src, cap) ==
    /\ nCalls < cap
    /\ nCalls' = nCalls + 1
    /\ sent' = [sent EXCEPT ![src] = @ + 1]
    /\ receiving' = receiving \cup
           {[id |-> nCalls + 1, src |-> src, pc |-> "set",
             count |-> IncrementGet(msgCountByPeer, src),
             ord |-> sent[src] + 1, inWindow |-> TRUE,
             afterDrop |-> droppedInWindow[src]]}
    /\ last' = Returned("Receive:begin", src)
    /\ UNCHANGED <<msgCountByPeer, maxMsgCountByPeer, incremented, clean, droppedInWindow>>
    /\ UNCHANGED <<serviceVars, ensureVars>>

ReceiveBegin(src) == ReceiveBeginUpTo(src, MaxCalls)

\* Receive, the count++ and Set of IncrementMsgCountForPeer.
ReceiveIncrement(c) ==
    /\ c.pc = "set"
    /\ msgCountByPeer' = IncrementSet(msgCountByPeer, c.src, c.count)
    /\ receiving' = (receiving \ {c}) \cup {[c EXCEPT !.pc = "check"]}
    /\ incremented' = [incremented EXCEPT ![c.src] = @ + 1]
    /\ clean' = [clean EXCEPT ![c.src] = @ /\ c.inWindow]
    /\ last' = Returned("Receive:increment", c.src)
    /\ UNCHANGED <<maxMsgCountByPeer, nCalls, sent, droppedInWindow>>
    /\ UNCHANGED <<serviceVars, ensureVars>>

\* Receive, from the ReachedMaxMsgCountForPeer check to its return. bz is
\* msgBytes, first read here. A panic ends the call (outcome "panic"); what
\* the caller's goroutine does with it is outside this file.
ReceiveFinish(c, bz, sel) ==
    /\ c.pc = "check"
    /\ LET base == [Returned("Receive", c.src) EXCEPT
                       !.bz = bz, !.ord = c.ord, !.peerSent = sent[c.src],
                       !.inWindow = c.inWindow /\ clean[c.src],
                       !.afterDrop = c.afterDrop /\ c.inWindow]
           reached == ReachedMaxMsgCountForPeer(msgCountByPeer, maxMsgCountByPeer, c.src)
       IN  /\ last' = IF reached = "panic" THEN [base EXCEPT !.outcome = "panic"]
                       ELSE IF reached = "reached" THEN [base EXCEPT !.outcome = "dropped"]
                       ELSE Dispatch(base, c.src, bz, sel)
           /\ droppedInWindow' = [droppedInWindow EXCEPT
                                     ![c.src] = @ \/ reached = "reached"]
    /\ receiving' = receiving \ {c}
    /\ UNCHANGED <<msgCountByPeer, maxMsgCountByPeer, nCalls, sent, incremented, clean>>
    /\ UNCHANGED <<serviceVars, ensureVars>>

\* SetMaxMsgCountByPeer, called while configuring the reactor (before any
\* message has been received).
SetMaxMsgCountByPeer(v) ==
    /\ nCalls = 0
    /\ maxMsgCountByPeer' = v
    /\ last' = Returned("SetMaxMsgCountByPeer", 0)
    /\ UNCHANGED <<msgCountByPeer, receiving, nCalls, sent, incremented, clean,
                   droppedInWindow>>
    /\ UNCHANGED <<serviceVars, ensureVars>>

\* ------------------------------------------------- AddPeer and RemovePeer
\* needMore is what r.book.NeedMoreAddrs() returns if it is called.
\* Faulty variant: an outbound peer is asked whether or not the book needs more.
AddPeerAlwaysRequest(p, outbound, needMore) ==
    IF outbound
    THEN [Returned("AddPeer", p) EXCEPT
             !.outbound = TRUE, !.needMore = needMore, !.sends = RequestPEX(p)]
    ELSE [Returned("AddPeer", p) EXCEPT
             !.adds = <<[addr |-> PeerAddr(p), src |-> PeerAddr(p)]>>]

AddPeerCalls(p, outbound, needMore) ==
    IF outbound
    THEN [Returned("AddPeer", p) EXCEPT
             !.outbound = TRUE, !.needMore = needMore,
             !.sends = IF needMore THEN RequestPEX(p) ELSE <<>>]
    ELSE [Returned("AddPeer", p) EXCEPT
             !.adds = <<[addr |-> PeerAddr(p), src |-> PeerAddr(p)]>>]

AddPeer(p, outbound, needMore) ==
    /\ last' = AddPeerCalls(p, outbound, needMore)
    /\ UNCHANGED <<limiterVars, serviceVars, ensureVars>>

\* Faulty variant: the peer's counter entry is deleted on disconnect.
RemovePeerDeletesEntry(m, p) == [x \in (DOMAIN m) \ {p} |-> m[x]]

\* RemovePeer has an empty body.
RemovePeerMap(m, p) == m

RemovePeer(p) ==
    /\ msgCountByPeer' = RemovePeerMap(msgCountByPeer, p)
    /\ last' = Returned("RemovePeer", p)
    /\ UNCHANGED <<maxMsgCountByPeer, receiving, nCalls, sent, incremented, clean,
                   droppedInWindow>>
    /\ UNCHANGED <<serviceVars, ensureVars>>

\* ------------------------------------------------------------ lifecycle
\* Faulty variant: the routines are spawned before the book's error is looked at.
OnStartSpawnsFirst(started) ==
    /\ svc = "created"
    /\ started = "already" <=> bookRunning
    /\ last' = IF started = "error"
               THEN [Returned("OnStart", 0) EXCEPT !.outcome = "error"]
               ELSE Returned("OnStart", 0)
    /\ svc' = IF started = "error" THEN svc ELSE "started"
    /\ bookRunning' = (started # "error")
    /\ routinePc' = "sleep"
    /\ flushPc' = "waiting"
    /\ UNCHANGED <<quit, limiterVars, ensureVars>>

\* OnStart (run once by BaseService.Start). started is what r.book.Start()
\* does: "ok", "already" (cmn.ErrAlreadyStarted) or "error" (any other error).
OnStart(started) ==
    /\ svc = "created"
    /\ started = "already" <=> bookRunning
    /\ IF started = "error"
       THEN /\ last' = [Returned("OnStart", 0) EXCEPT !.outcome = "error"]
            /\ UNCHANGED <<svc, bookRunning, flushPc, routinePc>>
       ELSE /\ last' = Returned("OnStart", 0)
            /\ svc' = "started"
            /\ bookRunning' = TRUE
            /\ routinePc' = "sleep"
            /\ flushPc' = "waiting"
    /\ UNCHANGED <<quit, limiterVars, ensureVars>>

\* Another owner of the address book starts it before the reactor does.
BookStart ==
    /\ svc = "created"
    /\ ~bookRunning
    /\ bookRunning' = TRUE
    /\ UNCHANGED <<svc, quit, flushPc, routinePc, last, limiterVars, ensureVars>>

\* OnStop (run once by BaseService.Stop, which also closes r.Quit).
OnStop ==
    /\ svc = "started"
    /\ svc' = "stopped"
    /\ bookRunning' = FALSE
    /\ quit' = TRUE
    /\ last' = Returned("OnStop", 0)
    /\ UNCHANGED <<flushPc, routinePc, limiterVars, ensureVars>>

\* flushMsgCountByPeer, case <-ticker.C: r.msgCountByPeer.Clear()
FlushTick ==
    /\ flushPc = "waiting"
    /\ msgCountByPeer' = CMapClear(msgCountByPeer)
    /\ receiving' = {[c EXCEPT !.inWindow = FALSE] : c \in receiving}
    /\ droppedInWindow' = [p \in PeerIDs |-> FALSE]
    /\ sent' = [p \in PeerIDs |-> 0]
    /\ incremented' = [p \in PeerIDs |-> 0]
    /\ clean' = [p \in PeerIDs |-> TRUE]
    /\ last' = Returned("flushMsgCountByPeer", 0)
    /\ UNCHANGED <<maxMsgCountByPeer, nCalls, serviceVars, ensureVars>>

\* flushMsgCountByPeer, case <-r.Quit
FlushQuit ==
    /\ flushPc = "waiting"
    /\ quit
    /\ flushPc' = "exited"
    /\ UNCHANGED <<svc, quit, bookRunning, routinePc, last, limiterVars, ensureVars>>

\* ------------------------------------------------------------ ensurePeers
MinInt(a, b) == IF a < b THEN a ELSE b

\* Faulty variant: the dials in progress are not counted.
NumToDialIgnoresDialing(numOutPeers, numDialing) == minNumOutboundPeers - numOutPeers

\* numToDial := minNumOutboundPeers - (numOutPeers + numDialing)
NumToDial(numOutPeers, numDialing) == minNumOutboundPeers - (numOutPeers + numDialing)

\* Faulty variant: the bias without its clamp.
NewBiasUnclamped(numOutPeers) == numOutPeers * 10 + 10

\* newBias := cmn.MinInt(numOutPeers, 8)*10 + 10
NewBias(numOutPeers) == MinInt(numOutPeers, 8) * 10 + 10

\* maxAttempts := numToDial * 3
MaxAttempts(numToDial) == numToDial * 3

\* The loop condition: i < maxAttempts && len(toDial) < numToDial
PickMore(e) ==
    /\ e.i < MaxAttempts(e.numToDial)
    /\ Cardinality(DOMAIN e.toDial) < e.numToDial

\* Faulty variant: an address of a connected peer is picked all the same.
PickIntoIgnoresConnected(toDial, try, isDialing, connected) ==
    IF try = NilAddr THEN toDial
    ELSE IF try.id \in DOMAIN toDial THEN toDial
    ELSE IF isDialing THEN toDial
    ELSE [x \in (DOMAIN toDial) \cup {try.id} |-> IF x = try.id THEN try ELSE toDial[x]]

\* One iteration of the pick loop on the map toDial: try is what PickAddress
\* returned, isDialing and connected what the switch answers for try.ID.
PickInto(toDial, try, isDialing, connected) ==
    IF try = NilAddr THEN toDial
    ELSE IF try.id \in DOMAIN toDial THEN toDial
    ELSE IF isDialing THEN toDial
    ELSE IF connected THEN toDial
    ELSE [x \in (DOMAIN toDial) \cup {try.id} |-> IF x = try.id THEN try ELSE toDial[x]]

\* Faulty variant: the addresses picked in this execution are not counted.
DialSeedsIgnoresTargets(e) == e.numOutPeers + e.numInPeers + e.numDialing = 0

\* The fallback condition:
\* numOutPeers+numInPeers+numDialing+len(toDial) == 0
DialSeeds(e) ==
    e.numOutPeers + e.numInPeers + e.numDialing + Cardinality(DOMAIN e.toDial) = 0

Targets(toDial) == {toDial[x] : x \in DOMAIN toDial}

\* Faulty variant: a random peer is asked whether or not the book needs more.
AskForMoreIgnoresBook(needMore, peers, k) ==
    IF Len(peers) > 0 THEN RequestPEX(peers[k]) ELSE <<>>

\* The Send calls of "if r.book.NeedMoreAddrs() { ... }": needMore is the
\* book's answer, peers is Switch.Peers().List() and k the index drawn.
AskForMore(needMore, peers, k) ==
    IF needMore /\ Len(peers) > 0 THEN RequestPEX(peers[k]) ELSE <<>>

\* An ensurePeers execution before it starts.
NoRun ==
    [pc |-> "idle", run |-> 0, numOutPeers |-> 0, numInPeers |-> 0, numDialing |-> 0,
     numToDial |-> 0, newBias |-> 0, i |-> 0, toDial |-> [x \in {} |-> NilAddr],
     picks |-> 0, biases |-> {}, dialed |-> {}, sends |-> <<>>, seedDials |-> 0]

\* ensurePeersRoutine calls ensurePeers: once after its initial sleep and
\* once per tick; ensurePeers reads NumPeers and returns if numToDial <= 0.
EnsureBegin(out, in, dl) ==
    /\ routinePc \in {"sleep", "waiting"}
    /\ ep.run < MaxRuns
    /\ LET n == NumToDial(out, dl)
           e == [NoRun EXCEPT !.run = ep.run + 1, !.numOutPeers = out,
                              !.numInPeers = in, !.numDialing = dl, !.numToDial = n]
       IN  IF n <= 0
           THEN /\ ep' = [e EXCEPT !.pc = "returned"]
                /\ routinePc' = "waiting"
           ELSE /\ ep' = [e EXCEPT !.pc = "pick", !.newBias = NewBias(out)]
                /\ routinePc' = "ensure"
    /\ UNCHANGED <<svc, quit, bookRunning, flushPc, dialing, last, limiterVars>>

\* One iteration of the pick loop.
EnsurePick(try, isDialing, connected) ==
    /\ ep.pc = "pick"
    /\ PickMore(ep)
    /\ ep' = [ep EXCEPT !.i = @ + 1,
                        !.picks = @ + 1,
                        !.biases = @ \cup {ep.newBias},
                        !.toDial = PickInto(@, try, isDialing, connected)]
    /\ UNCHANGED <<serviceVars, dialing, last, limiterVars>>

\* The rest of ensurePeers after the pick loop: launch a dial goroutine per
\* picked address, ask a random peer for addresses if the book needs more
\* (peers is Switch.Peers().List(), k the index drawn), dial the seeds if
\* isolated, and return to the routine.
EnsureFinish(needMore, peers, k) ==
    /\ ep.pc = "pick"
    /\ ~PickMore(ep)
    /\ k \in 1..Len(peers) \/ (peers = <<>> /\ k = 0)
    /\ ep' = [ep EXCEPT !.pc = "returned",
                        !.dialed = Targets(ep.toDial),
                        !.sends = AskForMore(needMore, peers, k),
                        !.seedDials = IF DialSeeds(ep) THEN 1 ELSE 0]
    /\ dialing' = [a \in AddrPool |->
                      IF a \in Targets(ep.toDial) THEN dialing[a] + 1 ELSE dialing[a]]
    /\ routinePc' = "waiting"
    /\ UNCHANGED <<svc, quit, bookRunning, flushPc, last, limiterVars>>

\* Faulty variant: the attempt is marked whether or not the dial failed.
DialReturnAlwaysMarks(picked, failed) ==
    /\ dialing[picked] > 0
    /\ dialing' = [dialing EXCEPT ![picked] = @ - 1]
    /\ last' = [Returned("dial", 0) EXCEPT
                   !.addr = picked,
                   !.outcome = IF failed THEN "error" ELSE "done",
                   !.marks = <<picked>>]
    /\ UNCHANGED <<ep, serviceVars, limiterVars>>

\* A dial goroutine returns from DialPeerWithAddress(picked, false); on an
\* error it calls r.book.MarkAttempt(picked).
DialReturn(picked, failed) ==
    /\ dialing[picked] > 0
    /\ dialing' = [dialing EXCEPT ![picked] = @ - 1]
    /\ last' = [Returned("dial", 0) EXCEPT
                   !.addr = picked,
                   !.outcome = IF failed THEN "error" ELSE "done",
                   !.marks = IF failed THEN <<picked>> ELSE <<>>]
    /\ UNCHANGED <<ep, serviceVars, limiterVars>>

\* Faulty variant: the Quit case leaves the select but not the loop.
RoutineQuitBreaksSelect ==
    /\ routinePc = "waiting"
    /\ quit
    /\ UNCHANGED vars

\* ensurePeersRoutine, case <-r.Quit
RoutineQuit ==
    /\ routinePc = "waiting"
    /\ quit
    /\ routinePc' = "exited"
    /\ UNCHANGED <<svc, quit, bookRunning, flushPc, last, limiterVars, ensureVars>>

\* Peers().List(): the connected peers in some order.
PeerLists == {<<>>} \cup {<<p>> : p \in PeerIDs}
             \cup {<<pq[1], pq[2]>> : pq \in {x \in PeerIDs \X PeerIDs : x[1] # x[2]}}

\* ---------------------------------------------------------- specifications
Init ==
    /\ msgCountByPeer = [x \in {} |-> 0]
    /\ maxMsgCountByPeer = defaultMaxMsgCountByPeer
    /\ receiving = {}
    /\ nCalls = 0
    /\ sent = [p \in PeerIDs |-> 0]
    /\ incremented = [p \in PeerIDs |-> 0]
    /\ clean = [p \in PeerIDs |-> TRUE]
    /\ droppedInWindow = [p \in PeerIDs |-> FALSE]
    /\ last = Returned("NewPEXReactor", 0)
    /\ svc = "created"
    /\ quit = FALSE
    /\ bookRunning = FALSE
    /\ flushPc = "none"
    /\ routinePc = "none"
    /\ ep = NoRun
    /\ dialing = [a \in AddrPool |-> 0]

\* The rate limiter: Receive calls running concurrently with each other and
\* with the flush routine of the started reactor.
Next ==
    \/ \E started \in {"ok", "already", "error"} : OnStart(started)
    \/ FlushTick
    \/ \E v \in 0..MaxThreshold : SetMaxMsgCountByPeer(v)
    \/ \E src \in PeerIDs : ReceiveBegin(src)
    \/ \E c \in receiving : ReceiveIncrement(c)
    \/ \E c \in receiving, bz \in SomeInputs :
           \E sel \in SelectionsFor(bz) : ReceiveFinish(c, bz, sel)

Spec == Init /\ [][Next]_vars

\* Message handling and the peer hooks: one Receive call at a time, over
\* every input.
NextMsg ==
    \/ \E v \in 0..MaxThreshold : SetMaxMsgCountByPeer(v)
    \/ \E src \in PeerIDs : receiving = {} /\ ReceiveBegin(src)
    \/ \E c \in receiving : ReceiveIncrement(c)
    \/ \E c \in receiving, bz \in Inputs :
           \E sel \in SelectionsFor(bz) : ReceiveFinish(c, bz, sel)
    \/ \E p \in PeerIDs, outbound \in BOOLEAN, needMore \in BOOLEAN :
           AddPeer(p, outbound, needMore)
    \/ \E p \in PeerIDs : RemovePeer(p)

SpecMsg == Init /\ [][NextMsg]_vars

\* One peer flooding the reactor within one window: up to MaxFlood Receive
\* calls, one at a time, with the default threshold and no flush tick.
NextFlood ==
    \/ receiving = {} /\ ReceiveBeginUpTo(1, MaxFlood)
    \/ \E c \in receiving : ReceiveIncrement(c)
    \/ \E c \in receiving : ReceiveFinish(c, EncodeMessage(pexRequestMessage), <<>>)

SpecFlood == Init /\ [][NextFlood]_vars

\* The ensurePeers executions of the started reactor.
NextEnsure ==
    \/ \E started \in {"ok", "already", "error"} : OnStart(started)
    \/ \E out \in 0..MaxOut, in \in 0..MaxIn, dl \in 0..MaxDialing : EnsureBegin(out, in, dl)
    \/ \E try \in AddrPool \cup {NilAddr}, isDialing \in BOOLEAN, connected \in BOOLEAN :
           EnsurePick(try, isDialing, connected)
    \/ \E needMore \in BOOLEAN, peers \in PeerLists, k \in 0..MaxPeers :
           EnsureFinish(needMore, peers, k)

SpecEnsure == Init /\ [][NextEnsure]_vars

\* The outbound counts at most MaxDeficit short of the target.
NearTarget == (minNumOutboundPeers - MaxDeficit)..minNumOutboundPeers

\* The steps of an ensurePeers execution of a reactor that is close to its
\* target, with no inbound peer and no dial in progress when it begins
\* (SpecEnsure has the whole range of counts); book is the set of addresses
\* PickAddress draws from.
EnsureStep(book) ==
    \/ \E out \in NearTarget : EnsureBegin(out, 0, 0)
    \/ \E try \in book \cup {NilAddr}, isDialing \in BOOLEAN, connected \in BOOLEAN :
           EnsurePick(try, isDialing, connected)
    \/ \E needMore \in BOOLEAN, peers \in PeerLists, k \in 0..MaxPeers :
           EnsureFinish(needMore, peers, k)

\* The pick loop and what follows it, draw by draw.
NextPick ==
    \/ \E started \in {"ok", "already", "error"} : OnStart(started)
    \/ EnsureStep(AddrPool)

SpecPick == Init /\ [][NextPick]_vars

\* The service: start and stop, the two routines and the dial goroutines
\* (the book holds one address per ID).
NextService ==
    \/ BookStart
    \/ \E started \in {"ok", "already", "error"} : OnStart(started)
    \/ OnStop
    \/ FlushTick
    \/ FlushQuit
    \/ EnsureStep(MsgAddrs)
    \/ \E picked \in MsgAddrs, failed \in BOOLEAN : DialReturn(picked, failed)
    \/ RoutineQuit

SpecService == Init /\ [][NextService]_vars

\* The service under fair scheduling: a goroutine that can run does run (the
\* initial sleep ends, ensurePeers makes no blocking call and goes on), and a
\* select whose Quit case is ready again and again takes it eventually (Go
\* chooses uniformly among the ready cases).
SpecServiceFair ==
    /\ SpecService
    /\ WF_vars(EnsureStep(MsgAddrs))
    /\ SF_vars(RoutineQuit)
    /\ SF_vars(FlushQuit)

\* ------------------------------------------------------------------ claims
\* The value a CMap holds for a peer, nil counted as 0.
Count(m, p) == IF Has(m, p) THEN m[p] ELSE 0

NoCalls(r) == r.adds = <<>> /\ r.sends = <<>>

\* C1: with threshold N and no Clear in between, the (N+1)-th Receive of a
\* peer is dropped, with no reply and no AddAddress call, whatever its
\* input; and a Receive of a peer that has sent fewer than N messages in the
\* window is not dropped.
C1_NthPlusOneDropped ==
    (last.op = "Receive" /\ last.inWindow) =>
        /\ last.ord = maxMsgCountByPeer + 1 => (last.outcome = "dropped" /\ NoCalls(last))
        /\ last.peerSent < maxMsgCountByPeer => last.outcome # "dropped"

\* C2: no increment is lost: once the Receive calls of a peer begun since the
\* last Clear have all completed, the peer's counter equals the number of
\* increments made for it, for every interleaving of their reads and writes.
C2_NoLostIncrement ==
    \A p \in PeerIDs :
        (clean[p] /\ ~(\E c \in receiving : c.src = p)) =>
            Count(msgCountByPeer, p) = incremented[p]

\* C3: the increment of a Receive call raises the sender's counter by exactly
\* 1 and leaves every other peer's counter unchanged, and a flush tick leaves
\* no peer with an entry.
C3_CounterSteps ==
    [][ /\ \A c \in receiving :
              ReceiveIncrement(c) =>
                  /\ Count(msgCountByPeer', c.src) = Count(msgCountByPeer, c.src) + 1
                  /\ \A q \in PeerIDs \ {c.src} :
                         Count(msgCountByPeer', q) = Count(msgCountByPeer, q)
        /\ FlushTick => \A p \in PeerIDs : ~Has(msgCountByPeer', p)
      ]_vars

\* An input that is empty, above the size bound, or tagged neither 0x01 nor
\* 0x02.
Undecodable(bz) ==
    \/ BzLen(bz) = 0
    \/ BzLen(bz) > maxPexMessageSize
    \/ bz.data[1] \notin {msgTypeRequest, msgTypeAddrs}

\* C4: a Receive call given an undecodable input ends with a decode error
\* (or is dropped by the rate limiter), never with a crash, and makes no
\* AddAddress call and sends no reply.
C4_UndecodableIsError ==
    (last.op = "Receive" /\ Undecodable(last.bz)) =>
        /\ last.outcome \in {"decodeError", "dropped"}
        /\ NoCalls(last)

\* C5: a processed Addrs message makes exactly one AddAddress call per
\* non-nil entry, in the order of the message, each with the sender's address
\* as source, and sends nothing.
C5_AddrsForwarded ==
    (last.op = "Receive" /\ last.outcome = "processed" /\ last.msg.type = "addrs") =>
        LET kept == SelectSeq(last.msg.addrs, LAMBDA a : a # NilAddr)
        IN  /\ last.bz = EncodeMessage(last.msg)
            /\ last.adds = [i \in 1..Len(kept) |->
                               [addr |-> kept[i], src |-> PeerAddr(last.peer)]]
            /\ last.sends = <<>>

C5_Witness ==
    /\ last.op = "Receive"
    /\ last.outcome = "processed"
    /\ last.msg = pexAddrsMessage(<<NetAddress(1, 1), NilAddr, NetAddress(2, 1)>>)
    /\ Len(last.adds) = 2

\* C6: a processed Request sends exactly one Addrs message, to the sender,
\* carrying exactly what GetSelection returned (also when that is empty), and
\* makes no AddAddress call.
C6_RequestAnswered ==
    (last.op = "Receive" /\ last.outcome = "processed" /\ last.msg.type = "request") =>
        /\ last.sends = <<[to |-> last.peer, msg |-> [type |-> "addrs", addrs |-> last.sel]]>>
        /\ last.adds = <<>>

C6_Witness ==
    /\ last.op = "Receive"
    /\ last.outcome = "processed"
    /\ last.msg.type = "request"
    /\ last.sel = <<>>
    /\ Len(last.sends) = 1

\* C7: an ensurePeers execution that observed outbound + dialing >= 10 has
\* returned having drawn no address, launched no dial, dialed no seeds and
\* sent no Request.
C7_NoDialWhenEnough ==
    (ep.pc # "idle" /\ ep.numOutPeers + ep.numDialing >= 10) =>
        /\ ep.pc = "returned"
        /\ ep.picks = 0
        /\ ep.dialed = {}
        /\ ep.seedDials = 0
        /\ ep.sends = <<>>

C7_Witness ==
    /\ ep.pc = "returned"
    /\ ep.numOutPeers = 9
    /\ ep.numDialing = 1

\* C8: an ensurePeers execution dials the seeds exactly once if it observed
\* outbound = inbound = dialing = 0 and picked no address, and not at all
\* otherwise.
C8_SeedsOnlyWhenIsolated ==
    /\ ep.pc = "returned" =>
           ep.seedDials =
               IF /\ ep.numOutPeers = 0
                  /\ ep.numInPeers = 0
                  /\ ep.numDialing = 0
                  /\ DOMAIN ep.toDial = {}
               THEN 1 ELSE 0
    /\ ep.pc # "returned" => ep.seedDials = 0

C8_Witness ==
    /\ ep.pc = "returned"
    /\ ep.seedDials = 1
    /\ ep.picks = 30

\* C9: AddPeer on an outbound peer sends one Request to that peer if the book
\* needs more addresses and nothing otherwise, with no AddAddress call;
\* AddPeer on an inbound peer makes the one call AddAddress(addr, addr) with
\* the peer's own address, and sends nothing.
C9_AddPeer ==
    last.op = "AddPeer" =>
        IF last.outbound
        THEN /\ last.sends = IF last.needMore
                             THEN <<[to |-> last.peer, msg |-> pexRequestMessage]>>
                             ELSE <<>>
             /\ last.adds = <<>>
        ELSE /\ last.adds = <<[addr |-> NetAddress(last.peer, 1),
                               src |-> NetAddress(last.peer, 1)]>>
             /\ last.sends = <<>>

C9_Witness ==
    /\ last.op = "AddPeer"
    /\ last.outbound
    /\ ~last.needMore

\* C10: RemovePeer leaves the counter map and the threshold as they are, so
\* the removed peer's count, and whether it has reached the threshold, are
\* the same after the call as before it.
C10_RemovePeerNoOp ==
    [][ \A p \in PeerIDs :
            RemovePeer(p) =>
                /\ msgCountByPeer' = msgCountByPeer
                /\ maxMsgCountByPeer' = maxMsgCountByPeer
                /\ ReachedMaxMsgCountForPeer(msgCountByPeer', maxMsgCountByPeer', p)
                       = ReachedMaxMsgCountForPeer(msgCountByPeer, maxMsgCountByPeer, p)
      ]_vars

C10_Witness ==
    /\ last.op = "RemovePeer"
    /\ ReachedMaxMsgCountForPeer(msgCountByPeer, maxMsgCountByPeer, last.peer) = "reached"
    /\ maxMsgCountByPeer > 0

\* C11: once the reactor is stopped (r.Quit is closed), no ensurePeers
\* execution begins and the counter map is not cleared again.
C11_NoIterationAfterStop ==
    [][quit => (ep'.run = ep.run /\ ~FlushTick)]_vars

\* C12: a stopped reactor has stopped the address book and closed r.Quit,
\* and under fair scheduling both routines then exit; OnStop does not wait
\* for the dial goroutines, one of which may return after the stop.
C12_StopTerminates ==
    /\ [](svc = "stopped" => (quit /\ ~bookRunning))
    /\ (svc = "stopped") ~> (routinePc = "exited" /\ flushPc = "exited")

C12_Witness ==
    /\ svc = "stopped"
    /\ last.op = "dial"
    /\ routinePc = "exited"
    /\ flushPc = "exited"

\* C13: OnStart returns the book's error and spawns neither routine when
\* book.Start fails with anything but "already started"; when it succeeds or
\* reports "already started", OnStart succeeds, the book is running and both
\* routines are spawned.
C13_OnStart ==
    [][ \A started \in {"ok", "already", "error"} :
            OnStart(started) =>
                IF started = "error"
                THEN /\ last'.outcome = "error"
                     /\ routinePc' = "none"
                     /\ flushPc' = "none"
                     /\ svc' = "created"
                ELSE /\ last'.outcome = "done"
                     /\ svc' = "started"
                     /\ bookRunning'
                     /\ routinePc' = "sleep"
                     /\ flushPc' = "waiting"
      ]_vars

C13_Witness ==
    /\ last.op = "OnStart"
    /\ last.outcome = "error"
    /\ routinePc = "none"
    /\ flushPc = "none"

\* C14: every PickAddress call of an ensurePeers execution is given the bias
\* min(outbound, 8) * 10 + 10 of the outbound count it observed, a value in
\* [10, 90]; the bias is 10 for outbound 0, 90 for outbound 8 and above, and
\* nondecreasing in outbound.
C14_Bias ==
    /\ \A b \in ep.biases :
           /\ b = (IF ep.numOutPeers < 8 THEN ep.numOutPeers ELSE 8) * 10 + 10
           /\ b >= 10
           /\ b <= 90
    /\ ep.picks > 0 => ep.biases # {}
    /\ NewBias(0) = 10
    /\ \A o \in 8..MaxOut : NewBias(o) = 90
    /\ \A o \in 1..MaxOut : NewBias(o - 1) <= NewBias(o)

C14_Witness ==
    /\ ep.numOutPeers = 9
    /\ ep.picks > 0
    /\ ep.biases = {90}

\* C15: an ensurePeers execution with deficit d > 0 makes at most 3*d draws
\* and picks at most d addresses, of pairwise distinct IDs; a draw is made
\* only while fewer than d addresses are picked; every draw counts as an
\* attempt; a draw that is nil, repeats a picked ID, or is reported dialing
\* or connected leaves the picked set as it is, and any other draw adds
\* exactly the drawn address.
C15_PickLoop ==
    /\ [](ep.numToDial > 0 =>
             /\ ep.picks <= 3 * ep.numToDial
             /\ ep.picks = ep.i
             /\ Cardinality(DOMAIN ep.toDial) <= ep.numToDial
             /\ \A x \in DOMAIN ep.toDial : ep.toDial[x].id = x)
    /\ [][ \A try \in AddrPool \cup {NilAddr}, isDialing \in BOOLEAN, connected \in BOOLEAN :
               EnsurePick(try, isDialing, connected) =>
                   /\ Cardinality(DOMAIN ep.toDial) < ep.numToDial
                   /\ ep'.picks = ep.picks + 1
                   /\ IF \/ try = NilAddr
                         \/ isDialing
                         \/ connected
                         \/ \E a \in Targets(ep.toDial) : a.id = try.id
                      THEN ep'.toDial = ep.toDial
                      ELSE Targets(ep'.toDial) = Targets(ep.toDial) \cup {try}
         ]_vars

C15_Witness ==
    /\ ep.numToDial = 2
    /\ ep.picks = 3
    /\ Cardinality(Targets(ep.toDial)) = 2

\* C16: the step that ends the pick loop launches exactly one dial goroutine
\* per picked address and none for any other address, and returns to the
\* routine without waiting for them and without reporting anything; a dial
\* goroutine calls MarkAttempt on its address exactly when its dial returned
\* an error.
C16_DetachedDials ==
    /\ [](last.op = "dial" =>
             last.marks = IF last.outcome = "error" THEN <<last.addr>> ELSE <<>>)
    /\ [][ (ep.pc = "pick" /\ ep'.pc # "pick") =>
                   /\ \A a \in AddrPool :
                          dialing'[a] = dialing[a]
                                            + (IF a \in Targets(ep.toDial) THEN 1 ELSE 0)
                   /\ ep'.dialed = Targets(ep.toDial)
                   /\ ep'.pc = "returned"
                   /\ routinePc' = "waiting"
                   /\ last' = last
         ]_vars

C16_Witness ==
    /\ ep.pc = "returned"
    /\ Cardinality(ep.dialed) = 2
    /\ last.op = "dial"
    /\ last.outcome = "error"
    /\ last.marks = <<last.addr>>
    /\ \E a \in ep.dialed : dialing[a] > 0

\* C17: an ensurePeers execution with a positive deficit sends exactly one
\* Request, to a member of the connected-peer list, if the book needs more
\* addresses and the list is non-empty, and sends nothing otherwise.
C17_AskOnePeer ==
    [][ \A needMore \in BOOLEAN, peers \in PeerLists, k \in 0..MaxPeers :
            EnsureFinish(needMore, peers, k) =>
                IF needMore /\ peers # <<>>
                THEN /\ Len(ep'.sends) = 1
                     /\ ep'.sends[1].msg = pexRequestMessage
                     /\ \E j \in 1..Len(peers) : ep'.sends[1].to = peers[j]
                ELSE ep'.sends = <<>>
      ]_vars

C17_Witness ==
    /\ ep.pc = "returned"
    /\ ep.numToDial > 0
    /\ ep.sends = <<[to |-> 2, msg |-> pexRequestMessage]>>
    /\ ep.dialed # {}

\* C18: no Receive call ends in a crash, also when the flush routine clears
\* the counter map between the call's increment and its threshold check.
C18_ReceiveNeverCrashes ==
    last.op = "Receive" => last.outcome \in {"dropped", "processed", "decodeError"}

\* C19: a Receive call of a peer that began after one of the peer's calls was
\* dropped, with no Clear since, is dropped too, however many calls the peer
\* makes in the window.
C19_DroppedStaysDropped ==
    (last.op = "Receive" /\ last.afterDrop) => last.outcome = "dropped"

\* C20: with threshold N and no Clear in between, none of the first N
\* Receive calls of a peer is dropped.
C20_FirstNProcessed ==
    (last.op = "Receive" /\ last.inWindow /\ last.ord <= maxMsgCountByPeer) =>
        last.outcome # "dropped"

====
